---- MODULE Spec2Model ----
(***************************************************************************)
(* Model of crates/primitives/src/specification.rs: the SpecId enum, its   *)
(* numeric decoding (try_from_u8), its name parsing (From<&str>), its      *)
(* derived ordering, the two activation checks (SpecId::enabled and the    *)
(* default method Spec::enabled) and the spec! bindings.                   *)
(*                                                                         *)
(* The code is pure.  The state is the build configuration (the cargo      *)
(* feature "optimism") together with the record of the last call made:     *)
(* which function, its arguments and what it returned.                     *)
(***************************************************************************)
EXTENDS Integers, Sequences, FiniteSets

VARIABLES
    optimism,   \* cfg(feature = "optimism") of the build
    fn,         \* the function called last ("-" before any call)
    binding,    \* Self of Spec::enabled (the spec! type name), or "-"
    our,        \* first SpecId argument / Self::SPEC_ID, or "-"
    other,      \* second (queried) SpecId argument, or "-"
    raw,        \* u8 argument of try_from_u8
    name,       \* &str argument of From<&str>
    retBool,    \* result of SpecId::enabled / Spec::enabled
    retOpt,     \* result of try_from_u8: <<"None">> or <<"Some", id>>
    retId,      \* result of From<&str>
    retOrd      \* result of Ord::cmp: "Less", "Equal", "Greater", or "-"

vars == <<optimism, fn, binding, our, other, raw, name,
          retBool, retOpt, retId, retOrd>>

\* #[repr(u8)]: the largest raw value
U8Max == 255

----------------------------------------------------------------------------
(* pub enum SpecId: variant, discriminant, and the cfg that gates it *)

SpecIdEnum ==
    << [variant |-> "FRONTIER",         disc |-> 0,   cfg |-> "any"],
       [variant |-> "FRONTIER_THAWING", disc |-> 1,   cfg |-> "any"],
       [variant |-> "HOMESTEAD",        disc |-> 2,   cfg |-> "any"],
       [variant |-> "DAO_FORK",         disc |-> 3,   cfg |-> "any"],
       [variant |-> "TANGERINE",        disc |-> 4,   cfg |-> "any"],
       [variant |-> "SPURIOUS_DRAGON",  disc |-> 5,   cfg |-> "any"],
       [variant |-> "BYZANTIUM",        disc |-> 6,   cfg |-> "any"],
       [variant |-> "CONSTANTINOPLE",   disc |-> 7,   cfg |-> "any"],
       [variant |-> "PETERSBURG",       disc |-> 8,   cfg |-> "any"],
       [variant |-> "ISTANBUL",         disc |-> 9,   cfg |-> "any"],
       [variant |-> "MUIR_GLACIER",     disc |-> 10,  cfg |-> "any"],
       [variant |-> "BERLIN",           disc |-> 11,  cfg |-> "any"],
       [variant |-> "LONDON",           disc |-> 12,  cfg |-> "any"],
       [variant |-> "ARROW_GLACIER",    disc |-> 13,  cfg |-> "any"],
       [variant |-> "GRAY_GLACIER",     disc |-> 14,  cfg |-> "any"],
       [variant |-> "MERGE",            disc |-> 15,  cfg |-> "any"],
       [variant |-> "SHANGHAI",         disc |-> 16,  cfg |-> "any"],
       [variant |-> "CANCUN",           disc |-> 17,  cfg |-> "any"],
       [variant |-> "LATEST",           disc |-> 18,  cfg |-> "any"],
       [variant |-> "BEDROCK",          disc |-> 128, cfg |-> "optimism"],
       [variant |-> "REGOLITH",         disc |-> 129, cfg |-> "optimism"] >>

\* whether an item gated by cfg c is compiled in a build with feature flag opt
Compiled(c, opt) == c = "any" \/ opt

\* the variants of SpecId that exist in the build
Variants(opt) ==
    { SpecIdEnum[i].variant :
        i \in { j \in 1..Len(SpecIdEnum) : Compiled(SpecIdEnum[j].cfg, opt) } }

AllVariants == Variants(TRUE)

\* the variants declared without a cfg attribute (FRONTIER..LATEST)
Mainline == Variants(FALSE)

\* the variants declared under cfg(feature = "optimism")
SideChain == AllVariants \ Mainline

\* `x as u8`
AsU8(x) ==
    SpecIdEnum[CHOOSE i \in 1..Len(SpecIdEnum) : SpecIdEnum[i].variant = x].disc

----------------------------------------------------------------------------
(* #[derive(Ord, PartialOrd)]: variants are ordered by discriminant *)

Cmp(a, b) ==
    IF AsU8(a) < AsU8(b) THEN "Less"
    ELSE IF AsU8(a) = AsU8(b) THEN "Equal"
    ELSE "Greater"

Gt(a, b) == Cmp(a, b) = "Greater"

----------------------------------------------------------------------------
(* SpecId::try_from_u8, i.e. enumn's generated Self::n: a match over the   *)
(* discriminants of the compiled variants, first arm that matches wins,    *)
(* `_ => None` otherwise.                                                  *)

RECURSIVE ScanDisc(_, _, _)
ScanDisc(i, v, opt) ==
    IF i > Len(SpecIdEnum) THEN <<"None">>
    ELSE IF Compiled(SpecIdEnum[i].cfg, opt) /\ SpecIdEnum[i].disc = v
         THEN <<"Some", SpecIdEnum[i].variant>>
         ELSE ScanDisc(i + 1, v, opt)

\* variant: the arms gated by the feature are never generated
try_from_u8_NoGatedArms(spec_id, opt) == ScanDisc(1, spec_id, FALSE)

\* variant: an unknown value falls back to LATEST, as From<&str> does
try_from_u8_Fallback(spec_id, opt) ==
    IF ScanDisc(1, spec_id, opt) = <<"None">>
    THEN <<"Some", "LATEST">>
    ELSE ScanDisc(1, spec_id, opt)

try_from_u8(spec_id, opt) == ScanDisc(1, spec_id, opt)

----------------------------------------------------------------------------
(* impl From<&str> for SpecId: the match arms in source order *)

FromArms ==
    << [pat |-> "Frontier",       id |-> "FRONTIER",        cfg |-> "any"],
       [pat |-> "Homestead",      id |-> "HOMESTEAD",       cfg |-> "any"],
       [pat |-> "Tangerine",      id |-> "TANGERINE",       cfg |-> "any"],
       [pat |-> "Spurious",       id |-> "SPURIOUS_DRAGON", cfg |-> "any"],
       [pat |-> "Byzantium",      id |-> "BYZANTIUM",       cfg |-> "any"],
       [pat |-> "Constantinople", id |-> "CONSTANTINOPLE",  cfg |-> "any"],
       [pat |-> "Petersburg",     id |-> "PETERSBURG",      cfg |-> "any"],
       [pat |-> "Istanbul",       id |-> "ISTANBUL",        cfg |-> "any"],
       [pat |-> "MuirGlacier",    id |-> "MUIR_GLACIER",    cfg |-> "any"],
       [pat |-> "Berlin",         id |-> "BERLIN",          cfg |-> "any"],
       [pat |-> "London",         id |-> "LONDON",          cfg |-> "any"],
       [pat |-> "Merge",          id |-> "MERGE",           cfg |-> "any"],
       [pat |-> "Shanghai",       id |-> "SHANGHAI",        cfg |-> "any"],
       [pat |-> "Cancun",         id |-> "CANCUN",          cfg |-> "any"],
       [pat |-> "Bedrock",        id |-> "BEDROCK",         cfg |-> "optimism"],
       [pat |-> "Regolith",       id |-> "REGOLITH",        cfg |-> "optimism"] >>

RECURSIVE ScanArms(_, _, _)
ScanArms(i, s, opt) ==
    IF i > Len(FromArms) THEN "LATEST"
    ELSE IF Compiled(FromArms[i].cfg, opt) /\ FromArms[i].pat = s
         THEN FromArms[i].id
         ELSE ScanArms(i + 1, s, opt)

\* variant: the cfg attributes on the Bedrock and Regolith arms are ignored
from_UngatedArms(s, opt) == ScanArms(1, s, TRUE)

from(s, opt) == ScanArms(1, s, opt)

----------------------------------------------------------------------------
(* SpecId::enabled(our, other) *)

\* variant: strict comparison
SpecId_enabled_Strict(a, b) == AsU8(a) > AsU8(b)

SpecId_enabled(a, b) == AsU8(a) >= AsU8(b)

(* Spec::enabled(spec_id), with Self::SPEC_ID = spec.  The early return is *)
(* compiled only under cfg(feature = "optimism").  The three let bindings  *)
(* are not gated although they name SpecId::BEDROCK and SpecId::REGOLITH,  *)
(* which exist only with the feature; for the build without it the model   *)
(* takes what the cfg on the `if` leaves: the final comparison, no variant *)
(* of that build being BEDROCK or REGOLITH.                                *)

\* variant: the early return is missing
Spec_enabled_NoException(spec, spec_id, opt) == AsU8(spec) >= AsU8(spec_id)

\* variant: the early return does not test is_self_optimism
Spec_enabled_AnySelf(spec, spec_id, opt) ==
    LET input_not_optimism == spec_id # "BEDROCK" /\ spec_id # "REGOLITH"
        after_merge        == Gt(spec_id, "MERGE")
    IN  IF opt /\ input_not_optimism /\ after_merge
        THEN FALSE
        ELSE AsU8(spec) >= AsU8(spec_id)

Spec_enabled(spec, spec_id, opt) ==
    LET is_self_optimism   == spec = "BEDROCK" \/ spec = "REGOLITH"
        input_not_optimism == spec_id # "BEDROCK" /\ spec_id # "REGOLITH"
        after_merge        == Gt(spec_id, "MERGE")
    IN  IF opt /\ is_self_optimism /\ input_not_optimism /\ after_merge
        THEN FALSE
        ELSE AsU8(spec) >= AsU8(spec_id)

----------------------------------------------------------------------------
(* spec!(ID, Name) invocations in source order *)

Bindings ==
    << [spec_name |-> "FrontierSpec",       spec_id |-> "FRONTIER",        cfg |-> "any"],
       [spec_name |-> "HomesteadSpec",      spec_id |-> "HOMESTEAD",       cfg |-> "any"],
       [spec_name |-> "TangerineSpec",      spec_id |-> "TANGERINE",       cfg |-> "any"],
       [spec_name |-> "SpuriousDragonSpec", spec_id |-> "SPURIOUS_DRAGON", cfg |-> "any"],
       [spec_name |-> "ByzantiumSpec",      spec_id |-> "BYZANTIUM",       cfg |-> "any"],
       [spec_name |-> "PetersburgSpec",     spec_id |-> "PETERSBURG",      cfg |-> "any"],
       [spec_name |-> "IstanbulSpec",       spec_id |-> "ISTANBUL",        cfg |-> "any"],
       [spec_name |-> "BerlinSpec",         spec_id |-> "BERLIN",          cfg |-> "any"],
       [spec_name |-> "LondonSpec",         spec_id |-> "LONDON",          cfg |-> "any"],
       [spec_name |-> "MergeSpec",          spec_id |-> "MERGE",           cfg |-> "any"],
       [spec_name |-> "ShanghaiSpec",       spec_id |-> "SHANGHAI",        cfg |-> "any"],
       [spec_name |-> "CancunSpec",         spec_id |-> "CANCUN",          cfg |-> "any"],
       [spec_name |-> "LatestSpec",         spec_id |-> "LATEST",          cfg |-> "any"],
       [spec_name |-> "BedrockSpec",        spec_id |-> "BEDROCK",         cfg |-> "optimism"],
       [spec_name |-> "RegolithSpec",       spec_id |-> "REGOLITH",        cfg |-> "optimism"] >>

\* variant: the bindings under cfg(feature = "optimism") are never compiled
BindingIdx_NoGated(opt) == { i \in 1..Len(Bindings) : Bindings[i].cfg = "any" }

\* the spec! invocations compiled in the build
BindingIdx(opt) == { i \in 1..Len(Bindings) : Compiled(Bindings[i].cfg, opt) }

----------------------------------------------------------------------------
(* Inputs *)

\* strings handed to From<&str>: every recognised name and some others
Names ==
    { FromArms[i].pat : i \in 1..Len(FromArms) } \cup
    { "", "frontier", "FRONTIER", "Frontier ", "bedrock", "regolith",
      "Latest", "Paris", "SpuriousDragon", "Muir Glacier", "unknown-garbage" }

----------------------------------------------------------------------------
(* State machine *)

Init ==
    /\ optimism \in BOOLEAN
    /\ fn = "-"
    /\ binding = "-"
    /\ our = "-"
    /\ other = "-"
    /\ raw = 0
    /\ name = ""
    /\ retBool = FALSE
    /\ retOpt = <<"None">>
    /\ retId = "-"
    /\ retOrd = "-"

\* The functions are pure and share no state: a call leaves behind only
\* its own arguments and result, the fields of other calls are cleared.

CallTryFromU8 ==
    \E v \in 0..U8Max :
        /\ fn' = "try_from_u8"
        /\ raw' = v
        /\ retOpt' = try_from_u8(v, optimism)
        /\ binding' = "-" /\ our' = "-" /\ other' = "-" /\ name' = ""
        /\ retBool' = FALSE /\ retId' = "-" /\ retOrd' = "-"
        /\ UNCHANGED optimism

CallFrom ==
    \E s \in Names :
        /\ fn' = "from"
        /\ name' = s
        /\ retId' = from(s, optimism)
        /\ binding' = "-" /\ our' = "-" /\ other' = "-" /\ raw' = 0
        /\ retBool' = FALSE /\ retOpt' = <<"None">> /\ retOrd' = "-"
        /\ UNCHANGED optimism

CallCmp ==
    \E a \in Variants(optimism), b \in Variants(optimism) :
        /\ fn' = "cmp"
        /\ our' = a
        /\ other' = b
        /\ retOrd' = Cmp(a, b)
        /\ binding' = "-" /\ raw' = 0 /\ name' = ""
        /\ retBool' = FALSE /\ retOpt' = <<"None">> /\ retId' = "-"
        /\ UNCHANGED optimism

CallSpecIdEnabled ==
    \E a \in Variants(optimism), b \in Variants(optimism) :
        /\ fn' = "SpecId::enabled"
        /\ our' = a
        /\ other' = b
        /\ retBool' = SpecId_enabled(a, b)
        /\ binding' = "-" /\ raw' = 0 /\ name' = ""
        /\ retOpt' = <<"None">> /\ retId' = "-" /\ retOrd' = "-"
        /\ UNCHANGED optimism

CallSpecEnabled ==
    \E i \in BindingIdx(optimism), q \in Variants(optimism) :
        /\ fn' = "Spec::enabled"
        /\ binding' = Bindings[i].spec_name
        /\ our' = Bindings[i].spec_id
        /\ other' = q
        /\ retBool' = Spec_enabled(Bindings[i].spec_id, q, optimism)
        /\ raw' = 0 /\ name' = ""
        /\ retOpt' = <<"None">> /\ retId' = "-" /\ retOrd' = "-"
        /\ UNCHANGED optimism

Next ==
    \/ CallTryFromU8
    \/ CallFrom
    \/ CallCmp
    \/ CallSpecIdEnabled
    \/ CallSpecEnabled

Spec == Init /\ [][Next]_vars

----------------------------------------------------------------------------
(* Properties *)

\* the SpecId variants that some compiled spec! invocation carries
Bound(opt) == { Bindings[i].spec_id : i \in BindingIdx(opt) }

\* number of compiled bindings whose SPEC_ID is id
BindingCount(id, opt) ==
    Cardinality({ i \in BindingIdx(opt) : Bindings[i].spec_id = id })

PreMerge ==
    { "FRONTIER", "FRONTIER_THAWING", "HOMESTEAD", "DAO_FORK", "TANGERINE",
      "SPURIOUS_DRAGON", "BYZANTIUM", "CONSTANTINOPLE", "PETERSBURG",
      "ISTANBUL", "MUIR_GLACIER", "BERLIN", "LONDON", "ARROW_GLACIER",
      "GRAY_GLACIER", "MERGE" }

PostMerge == { "SHANGHAI", "CANCUN", "LATEST" }

SameBand(a, b) ==
    \/ a \in Mainline /\ b \in Mainline
    \/ a \in SideChain /\ b \in SideChain

\* C1: with the optimism feature, BedrockSpec::enabled(q) and
\* RegolithSpec::enabled(q) are false for the mainline q after MERGE
\* (SHANGHAI, CANCUN, LATEST) and true for the mainline q up to MERGE.
C1_SideChainContainment ==
    (optimism /\ fn = "Spec::enabled"
       /\ binding \in {"BedrockSpec", "RegolithSpec"})
    => /\ other \in PostMerge => retBool = FALSE
       /\ other \in PreMerge  => retBool = TRUE

C1_Witness ==
    /\ optimism /\ fn = "Spec::enabled" /\ binding = "RegolithSpec"
    /\ other = "CANCUN" /\ retBool = FALSE

\* C2: for a and b in the same band, a having a binding, both Spec::enabled
\* on a's binding and SpecId::enabled(a, b) return rank(a) >= rank(b);
\* BedrockSpec enables BEDROCK but not REGOLITH, RegolithSpec enables both.
C2_SameBandBaseRule ==
    /\ (fn \in {"Spec::enabled", "SpecId::enabled"}
          /\ our \in Bound(optimism) /\ SameBand(our, other))
       => retBool = (AsU8(our) >= AsU8(other))
    /\ (fn = "Spec::enabled" /\ binding = "BedrockSpec")
       => /\ other = "BEDROCK"  => retBool = TRUE
          /\ other = "REGOLITH" => retBool = FALSE
    /\ (fn = "Spec::enabled" /\ binding = "RegolithSpec"
          /\ other \in {"BEDROCK", "REGOLITH"})
       => retBool = TRUE

C2_Witness ==
    /\ fn = "Spec::enabled" /\ binding = "BedrockSpec"
    /\ other = "REGOLITH" /\ retBool = FALSE

\* C3: with LATEST as the current version both activation checks return true
\* for every identifier of the build, BEDROCK and REGOLITH included.
C3_TerminalEnablesAll ==
    (fn \in {"Spec::enabled", "SpecId::enabled"} /\ our = "LATEST")
    => retBool = TRUE

\* C4: LATEST compares greater than or equal to every identifier of the
\* build under the derived ordering, BEDROCK and REGOLITH included.
C4_TerminalIsGreatest ==
    /\ (fn = "cmp" /\ our = "LATEST") => retOrd \in {"Equal", "Greater"}
    /\ (fn = "cmp" /\ other = "LATEST") => retOrd \in {"Equal", "Less"}

\* C5: try_from_u8(x as u8) returns Some(x) for every variant x of the build,
\* and no two variants share a numeric rank.
C5_RoundTrip ==
    /\ \A x \in Variants(optimism) :
         (fn = "try_from_u8" /\ raw = AsU8(x)) => retOpt = <<"Some", x>>
    /\ \A x, y \in Variants(optimism) : AsU8(x) = AsU8(y) => x = y

C5_Witness ==
    /\ optimism /\ fn = "try_from_u8" /\ raw = 129
    /\ retOpt = <<"Some", "REGOLITH">>

\* C6: try_from_u8(r) returns None for every r that is not the encoding of
\* a variant of the build (19..127 and 130..255, and also 128 and 129
\* without the optimism feature); for every r it returns None or Some of a
\* variant of the build.
C6_DecodeAbsent ==
    fn = "try_from_u8"
    => /\ raw \in 0..U8Max
       /\ (raw \in (19..127) \cup (130..255)) => retOpt = <<"None">>
       /\ (~optimism /\ raw \in {128, 129}) => retOpt = <<"None">>
       /\ \/ retOpt = <<"None">>
          \/ \E x \in Variants(optimism) : retOpt = <<"Some", x>>

C6_Witness ==
    /\ ~optimism /\ fn = "try_from_u8" /\ raw = 128 /\ retOpt = <<"None">>

\* the names From<&str> recognises in the build
Recognized(opt) ==
    { "Frontier", "Homestead", "Tangerine", "Spurious", "Byzantium",
      "Constantinople", "Petersburg", "Istanbul", "MuirGlacier", "Berlin",
      "London", "Merge", "Shanghai", "Cancun" }
    \cup (IF opt THEN {"Bedrock", "Regolith"} ELSE {})

\* C7: SpecId::from(name) is total and matches exactly: "Frontier" yields
\* FRONTIER, the identifier of smallest rank; every other string that is not
\* a recognised name yields LATEST; distinct recognised names yield distinct
\* identifiers.
C7_ParseExact ==
    /\ fn = "from"
       => /\ retId \in Variants(optimism)
          /\ name = "Frontier"
             => /\ retId = "FRONTIER"
                /\ \A x \in Variants(optimism) : AsU8(retId) <= AsU8(x)
          /\ name \notin Recognized(optimism) => retId = "LATEST"
          /\ name \in Recognized(optimism) => retId # "LATEST"
    /\ \A n1, n2 \in Recognized(optimism) :
         n1 # n2 => from(n1, optimism) # from(n2, optimism)

C7_Witness ==
    /\ ~optimism /\ fn = "from" /\ name = "Bedrock" /\ retId = "LATEST"

\* C8 (as stated): every variant of SpecId of the build has exactly one
\* binding whose SPEC_ID is that variant.
C8_OneBindingPerIdentifier ==
    \A id \in Variants(optimism) : BindingCount(id, optimism) = 1

\* the variants the source leaves without a spec! invocation
NoBinding ==
    { "FRONTIER_THAWING", "DAO_FORK", "CONSTANTINOPLE", "MUIR_GLACIER",
      "ARROW_GLACIER", "GRAY_GLACIER" }

\* C8 (amended): every variant of the build other than FRONTIER_THAWING,
\* DAO_FORK, CONSTANTINOPLE, MUIR_GLACIER, ARROW_GLACIER and GRAY_GLACIER
\* has exactly one binding whose SPEC_ID is that variant; those six have
\* none; no two bindings carry the same identifier, and Spec::enabled on a
\* binding reads that binding's identifier.
C8_OneBindingPerBoundIdentifier ==
    /\ \A id \in Variants(optimism) \ NoBinding :
         BindingCount(id, optimism) = 1
    /\ \A id \in Variants(optimism) \cap NoBinding :
         BindingCount(id, optimism) = 0
    /\ \A i, j \in BindingIdx(optimism) :
         Bindings[i].spec_id = Bindings[j].spec_id => i = j
    /\ fn = "Spec::enabled"
       => \E i \in BindingIdx(optimism) :
            Bindings[i].spec_name = binding /\ Bindings[i].spec_id = our

C8_Witness ==
    /\ optimism /\ fn = "Spec::enabled" /\ binding = "BedrockSpec"
    /\ our = "BEDROCK"

\* C9: for every mainline binding S and every queried q, S::enabled(q) is
\* rank(S::SPEC_ID) >= rank(q); no mainline binding reports BEDROCK or
\* REGOLITH as active.
C9_MainlineNeverExcepted ==
    (fn = "Spec::enabled" /\ our \in Mainline)
    => /\ retBool = (AsU8(our) >= AsU8(other))
       /\ other \in SideChain => retBool = FALSE

C9_Witness ==
    /\ fn = "Spec::enabled" /\ binding = "ShanghaiSpec"
    /\ other = "SHANGHAI" /\ retBool = TRUE

\* C10: for every binding S and every q, S::enabled(q) and
\* SpecId::enabled(S::SPEC_ID, q) return the same boolean, also when S is
\* BedrockSpec or RegolithSpec and q is a mainline identifier past MERGE.
C10_EntryPointsAgree ==
    /\ (fn = "SpecId::enabled" /\ our \in Bound(optimism))
       => retBool = Spec_enabled(our, other, optimism)
    /\ fn = "Spec::enabled"
       => retBool = SpecId_enabled(our, other)

====
